---- MODULE Spec2Model ----
(***************************************************************************)
(* DoubleKeyTable (src/double_key_table.py): an outer linear-probe array   *)
(* of (key1, LinearProbeTable) entries.  Keys are strings, modelled as     *)
(* sequences of code points; array position p is index p + 1.              *)
(***************************************************************************)
EXTENDS Integers, Sequences, FiniteSets, TLC

VARIABLES TABLE_SIZES, internal_sizes, table, element_count, size_index, last, calls,
          cursor, hash1_lambda, organiser, iht, trail

vars == <<TABLE_SIZES, internal_sizes, table, element_count, size_index, last, calls,
          cursor, hash1_lambda, organiser, iht, trail>>

\* ---------------------------------------------------------------- inputs
\* Longest run of set/delete calls the model follows.
MaxCalls == 5

Values == {1, 2}

\* "a", "f", "ab": "a" and "f" collide in a table of 5, "f" and "ab" in
\* tables of 2 and 13.
K1Keys == {<<97>>, <<102>>, <<97, 98>>}

\* "a" and "f" sit apart in a table of 2 and collide in a table of 5.
K2Keys == {<<97>>, <<102>>}

\* Inner keys for the single-rung tables: one more key than an inner table of 2 holds.
K2Full == {<<97>>, <<102>>, <<97, 98>>}

\* Values stored in the single-rung tables.
ValuesFull == {1}

\* Mountains handed to the manager, as (name, difficulty_level): names "a" and
\* "f", difficulty levels 1 and 6, which collide in an outer table of 5.
MountainNames == {<<97>>, <<102>>}

Difficulties == {1, 6}

Mountain(name, difficulty_level) == [name |-> name, difficulty_level |-> difficulty_level]

Mountains == {Mountain(name, diff) : name \in MountainNames, diff \in Difficulties}

\* Mountains handed to the organiser alone: names "a", "b" and "f", so that a
\* name can sort before, between and after the names of its difficulty level.
OrganiserMountains ==
    {Mountain(name, diff) : name \in {<<97>>, <<98>>, <<102>>}, diff \in Difficulties}

\* The lists passed to add_mountains: one mountain, or two of distinct names.
MountainLists ==
    {<<m>> : m \in OrganiserMountains}
        \cup {pair \in OrganiserMountains \X OrganiserMountains : pair[1].name # pair[2].name}

\* Keys of the InfiniteHashTable: "a", "ab", "abh", "ah", "b", "h".  "a" is a
\* prefix of three others, and "h" hashes to slot 0, below the slot of "a".
IHTKeys == {<<97>>, <<97, 98>>, <<97, 98, 104>>, <<97, 104>>, <<98>>, <<104>>}

\* "a", "G", "ab", "Gb": ord("G") % 26 = ord("a") % 26 = 19.
IHTClashKeys == {<<97>>, <<71>>, <<97, 98>>, <<71, 98>>}

\* Largest number of TrailSeries and TrailSplit objects in a trail.
MaxNodes == 4

\* Mountains on a trail and the max_difficulty arguments: below both, between
\* them, and at the harder one.
TrailMountains == {Mountain(<<97>>, 1), Mountain(<<102>>, 6)}

MaxDifficulties == {0, 1, 6}

\* Pairs stored in the tables that are enumerated lazily: two outer keys that
\* collide in a table of 5, two inner keys under the first.
IterPairs == {<<<<97>>, <<97>>>>, <<<<97>>, <<102>>>>, <<<<102>>, <<97>>>>}

K1Iter == {pair[1] : pair \in IterPairs}

\* ---------------------------------------------------------------- slots
None == [occ |-> FALSE]

ArrayR(n) == [i \in 1..n |-> None]

OuterEntry(key1, sub_table) == [occ |-> TRUE, key1 |-> key1, sub |-> sub_table]

InnerEntry(key2, data) == [occ |-> TRUE, key |-> key2, data |-> data]

\* The DoubleKeyTable object: the fields its methods read and write.
Self == [table |-> table, element_count |-> element_count, size_index |-> size_index]

table_size(d) == Len(d.table)

\* ---------------------------------------------------------------- hashing
HASH_BASE == 31

HASH_SEED == 31415

RECURSIVE HashLoop(_, _, _, _, _)
HashLoop(key, i, value, a, size) ==
    IF i > Len(key) THEN value
    ELSE HashLoop(key, i + 1, (key[i] + a * value) % size,
                  (a * HASH_BASE) % (size - 1), size)

\* hash1 (lines 54-65), or the lambda k: k % table_size that MountainManager
\* assigns to the instance attribute hash1 (mountain_manager.py line 22).
hash1(d, key) ==
    IF hash1_lambda THEN key % table_size(d)
    ELSE HashLoop(key, 1, 0, HASH_SEED, table_size(d))

hash2(key, sub_table) == HashLoop(key, 1, 0, HASH_SEED, Len(sub_table.array))

\* ------------------------------------------------ LinearProbeTable (inner)
\* data_structures.hash_table is not among the sources: the inner table follows
\* spec.md sections 4.2 (probe), 4.3 (insert) and 4.5 (grow); its hash is hash2.
LinearProbeTable(sizes) == [array |-> ArrayR(sizes[1]), count |-> 0, size_index |-> 0]

LPT_is_empty(t) == t.count = 0

RECURSIVE LPT_probe_loop(_, _, _, _, _)
LPT_probe_loop(t, key, is_insert, position, n) ==
    IF n = 0
    THEN [res |-> IF is_insert THEN "FullError" ELSE "KeyError", pos |-> 0]
    ELSE IF ~t.array[position + 1].occ
    THEN IF is_insert THEN [res |-> "ok", pos |-> position]
         ELSE [res |-> "KeyError", pos |-> 0]
    ELSE IF t.array[position + 1].key = key
    THEN [res |-> "ok", pos |-> position]
    ELSE LPT_probe_loop(t, key, is_insert, (position + 1) % Len(t.array), n - 1)

LPT_linear_probe(t, key, is_insert) ==
    LPT_probe_loop(t, key, is_insert, hash2(key, t), Len(t.array))

LPT_keys(t) ==
    LET occupied == SelectSeq(t.array, LAMBDA e : e.occ)
    IN  [i \in 1..Len(occupied) |-> occupied[i].key]

LPT_values(t) ==
    LET occupied == SelectSeq(t.array, LAMBDA e : e.occ)
    IN  [i \in 1..Len(occupied) |-> occupied[i].data]

RECURSIVE LPT_setitem(_, _, _), LPT_rehash(_), LPT_reinsert(_, _, _)
LPT_setitem(t, key, data) ==
    LET p  == LPT_linear_probe(t, key, TRUE)
        t1 == [t EXCEPT !.array[p.pos + 1] = InnerEntry(key, data),
                        !.count = IF t.array[p.pos + 1].occ THEN @ ELSE @ + 1]
    IN  IF p.res # "ok" THEN t
        ELSE IF 2 * t1.count > Len(t1.array) THEN LPT_rehash(t1) ELSE t1

LPT_reinsert(t, old_array, i) ==
    IF i > Len(old_array) THEN t
    ELSE IF old_array[i].occ
    THEN LPT_reinsert(LPT_setitem(t, old_array[i].key, old_array[i].data), old_array, i + 1)
    ELSE LPT_reinsert(t, old_array, i + 1)

LPT_rehash(t) ==
    IF t.size_index + 1 = Len(internal_sizes) THEN t
    ELSE LPT_reinsert([array |-> ArrayR(internal_sizes[t.size_index + 2]),
                       count |-> 0,
                       size_index |-> t.size_index + 1],
                      t.array, 1)

\* ------------------------------------------------------- DoubleKeyTable
\* probe_loop that creates the inner table at an empty slot before it looks at is_insert.
RECURSIVE probe_loop_allocating(_, _, _, _, _, _)
probe_loop_allocating(d, key1, key2, is_insert, table_position, n) ==
    IF n = 0
    THEN [res |-> IF is_insert THEN "FullError" ELSE "KeyError", d |-> d, tp |-> 0, sp |-> 0]
    ELSE IF ~d.table[table_position + 1].occ
    THEN LET sub_table == LinearProbeTable(internal_sizes)
             d1 == [d EXCEPT !.table[table_position + 1] = OuterEntry(key1, sub_table)]
         IN  IF ~is_insert
             THEN [res |-> "KeyError", d |-> d1, tp |-> 0, sp |-> 0]
             ELSE [res |-> "ok", d |-> d1, tp |-> table_position,
                   sp |-> hash2(key2, sub_table)]
    ELSE IF d.table[table_position + 1].key1 = key1
    THEN LET r == LPT_linear_probe(d.table[table_position + 1].sub, key2, is_insert)
         IN  [res |-> r.res, d |-> d, tp |-> table_position, sp |-> r.pos]
    ELSE probe_loop_allocating(d, key1, key2, is_insert,
                               (table_position + 1) % table_size(d), n - 1)

RECURSIVE probe_loop(_, _, _, _, _, _)
probe_loop(d, key1, key2, is_insert, table_position, n) ==
    IF n = 0
    THEN [res |-> IF is_insert THEN "FullError" ELSE "KeyError", d |-> d, tp |-> 0, sp |-> 0]
    ELSE IF ~d.table[table_position + 1].occ
    THEN IF ~is_insert
         THEN [res |-> "KeyError", d |-> d, tp |-> 0, sp |-> 0]
         ELSE LET sub_table == LinearProbeTable(internal_sizes)
              IN  [res |-> "ok",
                   d   |-> [d EXCEPT !.table[table_position + 1] = OuterEntry(key1, sub_table)],
                   tp  |-> table_position,
                   sp  |-> hash2(key2, sub_table)]
    ELSE IF d.table[table_position + 1].key1 = key1
    THEN LET r == LPT_linear_probe(d.table[table_position + 1].sub, key2, is_insert)
         IN  [res |-> r.res, d |-> d, tp |-> table_position, sp |-> r.pos]
    ELSE probe_loop(d, key1, key2, is_insert, (table_position + 1) % table_size(d), n - 1)

\* linear_probe that empties the slot at the hash position before it reports a full table.
linear_probe_evicting(d, key1, key2, is_insert) ==
    LET r == probe_loop(d, key1, key2, is_insert, hash1(d, key1), table_size(d))
    IN  IF r.res = "FullError"
        THEN [r EXCEPT !.d = [d EXCEPT !.table[hash1(d, key1) + 1] = None]]
        ELSE r

linear_probe(d, key1, key2, is_insert) ==
    probe_loop(d, key1, key2, is_insert, hash1(d, key1), table_size(d))

\* setitem_write with an overwrite that is counted as a new outer entry.
setitem_write_counting(d, tp, sp, key2, data) ==
    LET sub_table == d.table[tp + 1].sub
    IN  IF LPT_is_empty(sub_table)
        THEN [d EXCEPT !.table[tp + 1].sub.array[sp + 1] = InnerEntry(key2, data),
                       !.table[tp + 1].sub.count = @ + 1,
                       !.element_count = @ + 1]
        ELSE IF ~sub_table.array[sp + 1].occ
        THEN [d EXCEPT !.table[tp + 1].sub.array[sp + 1] = InnerEntry(key2, data),
                       !.table[tp + 1].sub.count = @ + 1]
        ELSE [d EXCEPT !.table[tp + 1].sub.array[sp + 1] = InnerEntry(key2, data),
                       !.element_count = @ + 1]

\* The write of __setitem__ (lines 292-306) at the probed positions.
setitem_write(d, tp, sp, key2, data) ==
    LET sub_table == d.table[tp + 1].sub
    IN  IF LPT_is_empty(sub_table)
        THEN [d EXCEPT !.table[tp + 1].sub.array[sp + 1] = InnerEntry(key2, data),
                       !.table[tp + 1].sub.count = @ + 1,
                       !.element_count = @ + 1]
        ELSE IF ~sub_table.array[sp + 1].occ
        THEN [d EXCEPT !.table[tp + 1].sub.array[sp + 1] = InnerEntry(key2, data),
                       !.table[tp + 1].sub.count = @ + 1]
        ELSE IF sub_table.array[sp + 1].key = key2
        THEN [d EXCEPT !.table[tp + 1].sub.array[sp + 1] = InnerEntry(key2, data)]
        ELSE d

\* old_items that feeds back only the first entry of every inner table.
RECURSIVE old_items_first(_, _)
old_items_first(old_table, i) ==
    IF i > Len(old_table) THEN <<>>
    ELSE IF old_table[i].occ
    THEN LET occupied == SelectSeq(old_table[i].sub.array, LAMBDA e : e.occ)
         IN  <<[key1 |-> old_table[i].key1, key2 |-> occupied[1].key, data |-> occupied[1].data]>>
             \o old_items_first(old_table, i + 1)
    ELSE old_items_first(old_table, i + 1)

\* The (key1, key2, data) triples _rehash feeds back, in the order of its two loops.
RECURSIVE old_items(_, _)
old_items(old_table, i) ==
    IF i > Len(old_table) THEN <<>>
    ELSE IF old_table[i].occ
    THEN LET occupied == SelectSeq(old_table[i].sub.array, LAMBDA e : e.occ)
         IN  [j \in 1..Len(occupied) |->
                 [key1 |-> old_table[i].key1, key2 |-> occupied[j].key, data |-> occupied[j].data]]
             \o old_items(old_table, i + 1)
    ELSE old_items(old_table, i + 1)

\* setitem and rehash return the object after the call, the exception raised
\* if any, and whether self.table was replaced by a new array meanwhile.
RECURSIVE setitem(_, _, _, _), rehash(_), rehash_loop(_, _, _)
\* setitem without the load check of the inner table (lines 311-312).
setitem_inner_unchecked(d, key1, key2, data) ==
    LET p == linear_probe(d, key1, key2, TRUE)
    IN  IF p.res # "ok" THEN [res |-> p.res, d |-> p.d, replaced |-> FALSE]
        ELSE
        LET d1 == setitem_write(p.d, p.tp, p.sp, key2, data)
        IN  IF 2 * d1.element_count > table_size(d1)
            THEN rehash(d1)
            ELSE [res |-> "ok", d |-> d1, replaced |-> FALSE]

setitem(d, key1, key2, data) ==
    LET p == linear_probe(d, key1, key2, TRUE)
    IN  IF p.res # "ok" THEN [res |-> p.res, d |-> p.d, replaced |-> FALSE]
        ELSE
        LET d1 == setitem_write(p.d, p.tp, p.sp, key2, data)
            r  == IF 2 * d1.element_count > table_size(d1)
                  THEN rehash(d1)
                  ELSE [res |-> "ok", d |-> d1, replaced |-> FALSE]
            \* sub_table is the object fetched at line 292: once the outer
            \* array was rebuilt it is no longer the one stored in self.table.
            sub_table == r.d.table[p.tp + 1].sub
        IN  IF r.res # "ok" \/ r.replaced THEN r
            ELSE IF 2 * sub_table.count > Len(sub_table.array)
            THEN [res |-> "ok",
                  d |-> [r.d EXCEPT !.table[p.tp + 1].sub = LPT_rehash(sub_table)],
                  replaced |-> FALSE]
            ELSE r

\* rehash_loop that writes the pairs back without the load checks of __setitem__.
RECURSIVE rehash_loop_unchecked(_, _, _)
rehash_loop_unchecked(d, items, i) ==
    IF i > Len(items) THEN [res |-> "ok", d |-> d, replaced |-> TRUE]
    ELSE LET p == linear_probe(d, items[i].key1, items[i].key2, TRUE)
         IN  IF p.res # "ok" THEN [res |-> p.res, d |-> p.d, replaced |-> TRUE]
             ELSE rehash_loop_unchecked(
                      setitem_write(p.d, p.tp, p.sp, items[i].key2, items[i].data),
                      items, i + 1)

rehash_loop(d, items, i) ==
    IF i > Len(items) THEN [res |-> "ok", d |-> d, replaced |-> TRUE]
    ELSE LET r == setitem(d, items[i].key1, items[i].key2, items[i].data)
         IN  IF r.res # "ok" THEN [res |-> r.res, d |-> r.d, replaced |-> TRUE]
             ELSE rehash_loop(r.d, items, i + 1)

\* rehash that reports a full table when the ladder has no further rung.
rehash_raising(d) ==
    IF d.size_index + 1 >= Len(TABLE_SIZES)
    THEN [res |-> "FullError", d |-> [d EXCEPT !.size_index = @ + 1], replaced |-> FALSE]
    ELSE rehash_loop([table |-> ArrayR(TABLE_SIZES[d.size_index + 2]),
                      element_count |-> 0,
                      size_index |-> d.size_index + 1],
                     old_items(d.table, 1), 1)

rehash(d) ==
    IF d.size_index + 1 >= Len(TABLE_SIZES)
    THEN [res |-> "ok", d |-> [d EXCEPT !.size_index = @ + 1], replaced |-> FALSE]
    ELSE rehash_loop([table |-> ArrayR(TABLE_SIZES[d.size_index + 2]),
                      element_count |-> 0,
                      size_index |-> d.size_index + 1],
                     old_items(d.table, 1), 1)

LPT_getitem(t, key) ==
    LET p == LPT_linear_probe(t, key, FALSE)
    IN  IF p.res # "ok" THEN [res |-> p.res, val |-> 0]
        ELSE [res |-> "ok", val |-> t.array[p.pos + 1].data]

getitem(d, key1, key2) ==
    LET p == linear_probe(d, key1, key2, FALSE)
    IN  IF p.res # "ok" THEN [res |-> p.res, val |-> 0]
        ELSE LPT_getitem(d.table[p.tp + 1].sub, key2)

contains_uncaught(d, key1, key2) ==
    LET r == getitem(d, key1, key2)
    IN  [res |-> r.res, flag |-> r.res = "ok"]

\* __contains__ (lines 249-260): try getitem, False on KeyError, True otherwise;
\* an exception other than KeyError is not caught.
contains(d, key1, key2) ==
    LET r == getitem(d, key1, key2)
    IN  IF r.res = "KeyError" THEN [res |-> "ok", flag |-> FALSE]
        ELSE IF r.res = "ok" THEN [res |-> "ok", flag |-> TRUE]
        ELSE [res |-> r.res, flag |-> FALSE]

\* __delitem__ without the cluster walk.
delitem_walk_skipped(t, sub_table_position) == [res |-> "ok", t |-> t]

\* The cluster walk of __delitem__ (lines 338-346) over the inner table t.
RECURSIVE delitem_walk(_, _)
delitem_walk(t, sub_table_position) ==
    IF ~t.array[sub_table_position + 1].occ THEN [res |-> "ok", t |-> t]
    ELSE LET e  == t.array[sub_table_position + 1]
             t1 == [t EXCEPT !.array[sub_table_position + 1] = None]
             np == LPT_linear_probe(t1, e.key, TRUE)
         IN  IF np.res # "ok" THEN [res |-> np.res, t |-> t1]
             ELSE delitem_walk([t1 EXCEPT !.array[np.pos + 1] = InnerEntry(e.key, e.data)],
                               (sub_table_position + 1) % Len(t.array))

\* delitem_found that leaves the count of the inner table as it was.
delitem_found_uncounted(d, p) ==
    LET sub_table == [d.table[p.tp + 1].sub EXCEPT !.array[p.sp + 1] = None]
    IN  IF LPT_is_empty(sub_table)
        THEN [res |-> "ok",
              d |-> [d EXCEPT !.table[p.tp + 1] = None, !.element_count = @ - 1]]
        ELSE LET w == delitem_walk(sub_table, (p.sp + 1) % Len(sub_table.array))
             IN  [res |-> w.res, d |-> [d EXCEPT !.table[p.tp + 1].sub = w.t]]

\* delitem_found that clears the outer slot whether or not the inner table is empty.
delitem_found_clearing(d, p) ==
    [res |-> "ok", d |-> [d EXCEPT !.table[p.tp + 1] = None, !.element_count = @ - 1]]

\* delitem_found that decrements element_count for every removed pair.
delitem_found_per_pair(d, p) ==
    LET sub_table == [d.table[p.tp + 1].sub EXCEPT !.array[p.sp + 1] = None,
                                                   !.count = @ - 1]
    IN  IF LPT_is_empty(sub_table)
        THEN [res |-> "ok",
              d |-> [d EXCEPT !.table[p.tp + 1] = None, !.element_count = @ - 1]]
        ELSE LET w == delitem_walk(sub_table, (p.sp + 1) % Len(sub_table.array))
             IN  [res |-> w.res, d |-> [d EXCEPT !.table[p.tp + 1].sub = w.t,
                                                 !.element_count = @ - 1]]

\* __delitem__ once the pair has been found at positions p.tp, p.sp (lines 327-346).
delitem_found(d, p) ==
    LET sub_table == [d.table[p.tp + 1].sub EXCEPT !.array[p.sp + 1] = None,
                                                   !.count = @ - 1]
    IN  IF LPT_is_empty(sub_table)
        THEN [res |-> "ok",
              d |-> [d EXCEPT !.table[p.tp + 1] = None, !.element_count = @ - 1]]
        ELSE LET w == delitem_walk(sub_table, (p.sp + 1) % Len(sub_table.array))
             IN  [res |-> w.res, d |-> [d EXCEPT !.table[p.tp + 1].sub = w.t]]

\* delitem that swallows the KeyError of a pair that is not found.
delitem_silent(d, key1, key2) ==
    LET p == linear_probe(d, key1, key2, FALSE)
    IN  IF p.res # "ok" THEN [res |-> "ok", d |-> p.d]
        ELSE delitem_found(p.d, p)

delitem(d, key1, key2) ==
    LET p == linear_probe(d, key1, key2, FALSE)
    IN  IF p.res # "ok" THEN [res |-> p.res, d |-> p.d]
        ELSE delitem_found(p.d, p)

\* keys() and values() without a key: the scan of the outer array.
keys_all(d) ==
    LET occupied == SelectSeq(d.table, LAMBDA e : e.occ)
    IN  [i \in 1..Len(occupied) |-> occupied[i].key1]

RECURSIVE values_all_from(_, _)
values_all_from(d, i) ==
    IF i > Len(d.table) THEN <<>>
    ELSE IF d.table[i].occ THEN LPT_values(d.table[i].sub) \o values_all_from(d, i + 1)
    ELSE values_all_from(d, i + 1)

values_all(d) == values_all_from(d, 1)

\* keys(key) and values(key): the probe for key; a loop that runs out returns
\* None, the value of a Python function that ends without a return.
RECURSIVE keys_loop(_, _, _, _), values_loop(_, _, _, _)
keys_loop(d, key, table_position, n) ==
    IF n = 0 THEN [res |-> "ok", none |-> TRUE, list |-> <<>>]
    ELSE IF ~d.table[table_position + 1].occ
    THEN [res |-> "KeyError", none |-> FALSE, list |-> <<>>]
    ELSE IF d.table[table_position + 1].key1 = key
    THEN [res |-> "ok", none |-> FALSE, list |-> LPT_keys(d.table[table_position + 1].sub)]
    ELSE keys_loop(d, key, (table_position + 1) % table_size(d), n - 1)

keys(d, key) == keys_loop(d, key, hash1(d, key), table_size(d))

values_loop(d, key, table_position, n) ==
    IF n = 0 THEN [res |-> "ok", none |-> TRUE, list |-> <<>>]
    ELSE IF ~d.table[table_position + 1].occ
    THEN [res |-> "KeyError", none |-> FALSE, list |-> <<>>]
    ELSE IF d.table[table_position + 1].key1 = key
    THEN [res |-> "ok", none |-> FALSE, list |-> LPT_values(d.table[table_position + 1].sub)]
    ELSE values_loop(d, key, (table_position + 1) % table_size(d), n - 1)

values(d, key) == values_loop(d, key, hash1(d, key), table_size(d))

len(d) == d.element_count

\* ------------------------------------------------------------ generators
\* The argument key=None of keys, values, iter_keys and iter_values.
NoKey == <<>>

\* keys(key) and values(key) with their default argument (lines 161-164, 225-232).
keys_call(d, key) ==
    IF key = NoKey THEN [res |-> "ok", none |-> FALSE, list |-> keys_all(d)]
    ELSE keys(d, key)

values_call(d, key) ==
    IF key = NoKey THEN [res |-> "ok", none |-> FALSE, list |-> values_all(d)]
    ELSE values(d, key)

\* A generator object: state is "none" (no generator), "created" (body not
\* entered yet), "running" (suspended at its yield), "finished" (body ended)
\* or "failed" (body raised).  snap and index are the locals keys/values and
\* keys_index/values_index; born is the number of set/delete calls that had
\* run when the generator was created and out the elements yielded so far.
NoCursor ==
    [state |-> "none", kind |-> "", key |-> NoKey, snap |-> <<>>, index |-> 0,
     born |-> 0, out |-> <<>>]

NewCursor(kind, key, born) ==
    [state |-> "created", kind |-> kind, key |-> key, snap |-> <<>>, index |-> 0,
     born |-> born, out |-> <<>>]

Raised(c, error) == [c |-> [c EXCEPT !.state = "failed"], res |-> error, item |-> <<>>]

Yielded(c, item) ==
    [c |-> [c EXCEPT !.state = "running", !.index = @ + 1, !.out = Append(@, item)],
     res |-> "yield", item |-> <<item>>]

Exhausted(c) == [c |-> [c EXCEPT !.state = "finished"], res |-> "StopIteration", item |-> <<>>]

\* iter_keys whose loop stops one element early.
iter_keys_loop_short(d, c) ==
    IF ~(c.index + 1 < Len(c.snap)) THEN Exhausted(c)
    ELSE LET fresh == keys_call(d, c.key)
         IN  IF fresh.res # "ok" THEN Raised(c, fresh.res)
             ELSE IF fresh.none THEN Raised(c, "TypeError")
             ELSE IF c.index >= Len(fresh.list) THEN Raised(c, "IndexError")
             ELSE IF fresh.list[c.index + 1] = c.snap[c.index + 1]
             THEN Yielded(c, c.snap[c.index + 1])
             ELSE Raised(c, "RuntimeError")

\* One turn of the while loop of iter_keys (lines 145-150), up to the yield or
\* the end of the body.  self.keys(key) may raise KeyError or return None
\* (subscripting None is a TypeError); its element at keys_index is compared
\* with the snapshot's; raise StopIteration inside a generator reaches the
\* caller as RuntimeError.
iter_keys_loop(d, c) ==
    IF ~(c.index < Len(c.snap)) THEN Exhausted(c)
    ELSE LET fresh == keys_call(d, c.key)
         IN  IF fresh.res # "ok" THEN Raised(c, fresh.res)
             ELSE IF fresh.none THEN Raised(c, "TypeError")
             ELSE IF c.index >= Len(fresh.list) THEN Raised(c, "IndexError")
             ELSE IF fresh.list[c.index + 1] = c.snap[c.index + 1]
             THEN Yielded(c, c.snap[c.index + 1])
             ELSE Raised(c, "RuntimeError")

\* next() on an iter_keys generator: the first call runs lines 141-144 (the
\* snapshot; iter(None) is a TypeError) before the loop.
iter_keys_next(d, c) ==
    IF c.state = "created"
    THEN LET r == keys_call(d, c.key)
         IN  IF r.res # "ok" THEN Raised(c, r.res)
             ELSE IF r.none THEN Raised(c, "TypeError")
             ELSE iter_keys_loop(d, [c EXCEPT !.snap = r.list, !.index = 0])
    ELSE iter_keys_loop(d, c)

\* iter_values that compares only the element at values_index.
iter_values_loop_by_element(d, c) ==
    IF ~(c.index < Len(c.snap)) THEN Exhausted(c)
    ELSE LET fresh == values_call(d, c.key)
         IN  IF fresh.res # "ok" THEN Raised(c, fresh.res)
             ELSE IF fresh.none THEN Raised(c, "BaseException")
             ELSE IF c.index >= Len(fresh.list) THEN Raised(c, "BaseException")
             ELSE IF fresh.list[c.index + 1] = c.snap[c.index + 1]
             THEN Yielded(c, c.snap[c.index + 1])
             ELSE Raised(c, "BaseException")

\* One turn of the while loop of iter_values (lines 197-202): the whole
\* snapshot is compared with self.values(key), which may raise KeyError or
\* return None (unequal to a list).
iter_values_loop(d, c) ==
    IF ~(c.index < Len(c.snap)) THEN Exhausted(c)
    ELSE LET fresh == values_call(d, c.key)
         IN  IF fresh.res # "ok" THEN Raised(c, fresh.res)
             ELSE IF ~fresh.none /\ fresh.list = c.snap
             THEN Yielded(c, c.snap[c.index + 1])
             ELSE Raised(c, "BaseException")

\* next() on an iter_values generator: the first call runs lines 194-196
\* before the loop; len(None) is a TypeError.
iter_values_next(d, c) ==
    IF c.state = "created"
    THEN LET r == values_call(d, c.key)
         IN  IF r.res # "ok" THEN Raised(c, r.res)
             ELSE IF r.none THEN Raised(c, "TypeError")
             ELSE iter_values_loop(d, [c EXCEPT !.snap = r.list, !.index = 0])
    ELSE iter_values_loop(d, c)

\* ------------------------------------------------------ InfiniteHashTable
\* src/infinite_hash_table.py.  A table is its level, count and origin; an
\* entry is (key, value) with is_table telling type(value) is InfiniteHashTable.
TABLE_SIZE == 27

\* The code point of "*", which ends the key of an entry that holds a table.
STAR == 42

InfiniteHashTable(level) == [level |-> level, count |-> 0, origin |-> ArrayR(TABLE_SIZE)]

IHTEntry(key, value, is_table) ==
    [occ |-> TRUE, key |-> key, value |-> value, is_table |-> is_table]

iht_hash(t, key) ==
    IF t.level < Len(key) THEN key[t.level + 1] % (TABLE_SIZE - 1)
    ELSE TABLE_SIZE - 1

\* key[:n]
Slice(key, n) == SubSeq(key, 1, IF n < Len(key) THEN n ELSE Len(key))

RECURSIVE get_location_loop(_, _, _)
get_location_loop(current_table, key, res) ==
    LET table_position == iht_hash(current_table, key)
        entry == current_table.origin[table_position + 1]
    IN  IF ~entry.occ THEN [res |-> "KeyError", positions |-> <<>>]
        ELSE IF entry.is_table
        THEN get_location_loop(entry.value, key, Append(res, table_position))
        ELSE IF entry.key # key THEN [res |-> "KeyError", positions |-> <<>>]
        ELSE [res |-> "ok", positions |-> Append(res, table_position)]

get_location(t, key) == get_location_loop(t, key, <<>>)

\* The table reached from t through the positions.
RECURSIVE iht_at(_, _)
iht_at(t, positions) ==
    IF positions = <<>> THEN t
    ELSE iht_at(t.origin[positions[1] + 1].value, Tail(positions))

\* t with origin[position] = entry in the table reached through the positions.
RECURSIVE iht_put(_, _, _, _)
iht_put(t, positions, position, entry) ==
    IF positions = <<>> THEN [t EXCEPT !.origin[position + 1] = entry]
    ELSE [t EXCEPT !.origin[positions[1] + 1].value =
                       iht_put(@, Tail(positions), position, entry)]

iht_getitem(t, key) ==
    LET l == get_location(t, key)
    IN  IF l.res # "ok" THEN [res |-> l.res, val |-> 0]
        ELSE [res |-> "ok",
              val |-> iht_at(t, SubSeq(l.positions, 1, Len(l.positions) - 1))
                          .origin[l.positions[Len(l.positions)] + 1].value]

\* The walk of __setitem__ for key meets a plain entry whose key hashes like
\* key at every further level (lines 39-45: equal length and code points
\* equal modulo TABLE_SIZE - 1; the key itself when it is stored): the
\* next_table built for the two (lines 79-81) meets the same collision one
\* level down, and so on without end.
RECURSIVE iht_endless(_, _)
iht_endless(current, key) ==
    LET table_position == iht_hash(current, key)
        entry == current.origin[table_position + 1]
    IN  IF ~entry.occ THEN FALSE
        ELSE IF entry.is_table THEN iht_endless(entry.value, key)
        ELSE /\ Len(entry.key) = Len(key)
             /\ \A i \in (current.level + 1)..Len(key) :
                    entry.key[i] % (TABLE_SIZE - 1) = key[i] % (TABLE_SIZE - 1)

\* __setitem__ (lines 63-90).  iht_place is the walk and the write, iht_setitem
\* adds self.count += 1.  A key that is already stored meets its own entry,
\* builds a next_table for two equal keys and recurses without end, every
\* level hashing both to the same slot, and so does a key that meets another
\* key with the same hashes: Python raises RecursionError before anything is
\* linked into the table.
RECURSIVE iht_place(_, _, _), iht_setitem(_, _, _)
iht_place(current, key, value) ==
    LET table_position == iht_hash(current, key)
        entry == current.origin[table_position + 1]
    IN  IF ~entry.occ
        THEN [current EXCEPT !.origin[table_position + 1] = IHTEntry(key, value, FALSE)]
        ELSE IF ~entry.is_table
        THEN LET empty == InfiniteHashTable(current.level + 1)
                 next_table == iht_setitem(iht_setitem(empty, entry.key, entry.value).t,
                                           key, value).t
             IN  [current EXCEPT !.origin[table_position + 1] =
                      IHTEntry(Slice(key, current.level + 1) \o <<STAR>>, next_table, TRUE)]
        ELSE [current EXCEPT !.origin[table_position + 1].value = iht_place(@, key, value)]

iht_setitem(t, key, value) ==
    IF iht_endless(t, key) THEN [res |-> "RecursionError", t |-> t]
    ELSE [res |-> "ok", t |-> [iht_place(t, key, value) EXCEPT !.count = @ + 1]]

\* The loop of __delitem__ (lines 110-134) that closes tables left with one
\* key; current_table is the table reached through the first depth positions
\* and pos_index = depth - 1.
RECURSIVE iht_close(_, _, _)
iht_close(t, positions, depth) ==
    IF depth = 0 THEN t
    ELSE LET current_table == iht_at(t, SubSeq(positions, 1, depth))
             plain == SelectSeq(current_table.origin,
                                LAMBDA element : element.occ
                                    /\ element.key[Len(element.key)] # STAR)
             item == plain[Len(plain)]
             cut == [iht_put(t, SubSeq(positions, 1, depth - 1), positions[depth], None)
                        EXCEPT !.count = @ - 1]
         IN  IF Len(plain) = 1
             THEN iht_close(iht_setitem(cut, item.key, item.value).t, positions, depth - 1)
             ELSE t

\* __delitem__ (lines 92-134).
iht_delitem(t, key) ==
    LET l == get_location(t, key)
        n == Len(l.positions)
        removed == [iht_put(t, SubSeq(l.positions, 1, n - 1), l.positions[n], None)
                       EXCEPT !.count = @ - 1]
    IN  IF l.res # "ok" THEN [res |-> l.res, t |-> t]
        ELSE [res |-> "ok", t |-> iht_close(removed, l.positions, n - 1)]

HasStar(key) == \E i \in 1..Len(key) : key[i] = STAR

\* sort_keys whose scan starts at slot 0.
RECURSIVE sort_keys_from_zero(_), sort_keys_zero_loop(_, _)
sort_keys_zero_loop(current_table, n) ==
    IF n = TABLE_SIZE THEN <<>>
    ELSE LET table_position == (0 + n) % TABLE_SIZE
             entry == current_table.origin[table_position + 1]
             here == IF entry.occ /\ table_position # TABLE_SIZE - 1
                     THEN IF HasStar(entry.key) THEN sort_keys_from_zero(entry.value)
                          ELSE <<entry.key>>
                     ELSE <<>>
         IN  here \o sort_keys_zero_loop(current_table, n + 1)

sort_keys_from_zero(current_table) ==
    LET final == current_table.origin[TABLE_SIZE]
        first == IF final.occ /\ ~HasStar(final.key) THEN <<final.key>> ELSE <<>>
    IN  first \o sort_keys_zero_loop(current_table, 0)

\* sort_keys (lines 195-228): slot TABLE_SIZE - 1 first, then TABLE_SIZE slots
\* from start_pos = ord('a') % (TABLE_SIZE - 1), wrapping, entering the table
\* of every entry whose key holds "*".
RECURSIVE sort_keys(_), sort_keys_loop(_, _)
sort_keys_loop(current_table, n) ==
    IF n = TABLE_SIZE THEN <<>>
    ELSE LET start_pos == 97 % (TABLE_SIZE - 1)
             table_position == (start_pos + n) % TABLE_SIZE
             entry == current_table.origin[table_position + 1]
             here == IF entry.occ /\ table_position # TABLE_SIZE - 1
                     THEN IF HasStar(entry.key) THEN sort_keys(entry.value)
                          ELSE <<entry.key>>
                     ELSE <<>>
         IN  here \o sort_keys_loop(current_table, n + 1)

sort_keys(current_table) ==
    LET final == current_table.origin[TABLE_SIZE]
        first == IF final.occ /\ ~HasStar(final.key) THEN <<final.key>> ELSE <<>>
    IN  first \o sort_keys_loop(current_table, 0)

Range(f) == {f[i] : i \in DOMAIN f}

\* The class attribute TABLE_SIZES (line 29), the default of both ladders.
DEFAULT_TABLE_SIZES ==
    <<5, 13, 29, 53, 97, 193, 389, 769, 1543, 3079, 6151, 12289, 24593, 49157, 98317,
      196613, 393241, 786433, 1572869>>

\* ------------------------------------------------------ MountainOrganiser
\* src/mountain_organiser.py.  organiser is the list of mountains; hash_table
\* (a LinearProbeTable, used through get, set and delete of a name) is the
\* function from the names it holds to their rank.
MountainOrganiser == [organiser |-> <<>>, hash_table |-> [name \in {} |-> 0]]

\* hash_table[key] = data and del hash_table[key].
ranks_set(hash_table, key, data) ==
    [name \in DOMAIN hash_table \cup {key} |-> IF name = key THEN data ELSE hash_table[name]]

ranks_del(hash_table, key) == [name \in DOMAIN hash_table \ {key} |-> hash_table[name]]

\* cur_position (lines 28-38).
cur_position(org, mountain) ==
    IF mountain.name \in DOMAIN org.hash_table
    THEN [res |-> "ok", val |-> org.hash_table[mountain.name]]
    ELSE [res |-> "KeyError", val |-> 0]

\* algorithms.mergesort.merge with key difficulty_level: on a tie the element
\* of the first list goes first.
RECURSIVE merge(_, _)
merge(l1, l2) ==
    IF l1 = <<>> THEN l2
    ELSE IF l2 = <<>> THEN l1
    ELSE IF Head(l1).difficulty_level <= Head(l2).difficulty_level
    THEN <<Head(l1)>> \o merge(Tail(l1), l2)
    ELSE <<Head(l2)>> \o merge(l1, Tail(l2))

RECURSIVE mergesort(_)
mergesort(l) ==
    IF Len(l) <= 1 THEN l
    ELSE LET break_index == (Len(l) + 1) \div 2
         IN  merge(mergesort(SubSeq(l, 1, break_index)),
                   mergesort(SubSeq(l, break_index + 1, Len(l))))

\* counts_hash_table (lines 50-68) as its array of difficulty levels, 0 for a
\* free slot: a level goes to the first free slot from k % table_size on.  The
\* table stays on its first capacity while it holds at most half of it.
RECURSIVE counts_probe(_, _, _)
counts_probe(array, key, position) ==
    IF array[position + 1] = 0 \/ array[position + 1] = key THEN position
    ELSE counts_probe(array, key, (position + 1) % Len(array))

RECURSIVE counts_array(_, _)
counts_array(list, array) ==
    IF list = <<>> THEN array
    ELSE LET key == Head(list).difficulty_level
             position == counts_probe(array, key, key % Len(array))
         IN  counts_array(Tail(list), [array EXCEPT ![position + 1] = key])

\* counts_hash_table.keys() (line 75): the levels in the order of their slots.
counts_keys(list) ==
    SelectSeq(counts_array(list, [i \in 1..DEFAULT_TABLE_SIZES[1] |-> 0]),
              LAMBDA key : key # 0)

\* counts_hash_table[diff_level] (line 77).
counts_of(list, diff_level) ==
    Len(SelectSeq(list, LAMBDA mtn : mtn.difficulty_level = diff_level))

\* Lines 78-80 from rank on: names[mtn.name] = (mtn, rank) for the mountains
\* of diff_level.
RECURSIVE names_fill(_, _, _, _)
names_fill(list, diff_level, rank, names) ==
    IF rank = Len(list) THEN [res |-> "ok", t |-> names]
    ELSE IF list[rank + 1].difficulty_level # diff_level
    THEN names_fill(list, diff_level, rank + 1, names)
    ELSE LET r == iht_setitem(names, list[rank + 1].name, <<list[rank + 1], rank>>)
         IN  IF r.res # "ok" THEN r
             ELSE names_fill(list, diff_level, rank + 1, r.t)

\* Lines 85-92 from sorted_index on: the first name takes the rank stored
\* with it, every further name the next rank; organiser[lowest_rank] past the
\* end of the list raises IndexError.
RECURSIVE rank_names(_, _, _, _, _)
rank_names(list, names, sorted_names, sorted_index, lowest_rank) ==
    IF sorted_index = Len(sorted_names) THEN [res |-> "ok", organiser |-> list]
    ELSE LET mtn_info == iht_getitem(names, sorted_names[sorted_index + 1]).val
             rank == IF sorted_index = 0 THEN mtn_info[2] ELSE lowest_rank + 1
         IN  IF rank >= Len(list) THEN [res |-> "IndexError", organiser |-> list]
             ELSE rank_names([list EXCEPT ![rank + 1] = mtn_info[1]], names,
                             sorted_names, sorted_index + 1, rank)

\* Lines 81-92 for one difficulty level, names being filled (or the filling
\* having raised).
rank_level(list, filled) ==
    IF filled.res # "ok" THEN [res |-> filled.res, organiser |-> list]
    ELSE IF filled.t.count > 0
    THEN rank_names(list, filled.t, sort_keys(filled.t), 0, 0)
    ELSE [res |-> "ok", organiser |-> list]

\* Lines 75-92 from the i-th difficulty level on, ranked being the outcome of
\* the levels before it; counts were taken from the merged list (lines 61-68),
\* the ranks come from the list as it is now.
RECURSIVE rank_levels(_, _, _, _)
rank_levels(ranked, merged, diff_levels, i) ==
    IF i > Len(diff_levels) \/ ranked.res # "ok" THEN ranked
    ELSE rank_levels(
             rank_level(ranked.organiser,
                        IF counts_of(merged, diff_levels[i]) > 1
                        THEN names_fill(ranked.organiser, diff_levels[i], 0,
                                        InfiniteHashTable(0))
                        ELSE [res |-> "ok", t |-> InfiniteHashTable(0)]),
             merged, diff_levels, i + 1)

\* Lines 95-96 from rank on.
RECURSIVE ranks_all(_, _, _)
ranks_all(list, rank, hash_table) ==
    IF rank = Len(list) THEN hash_table
    ELSE ranks_all(list, rank + 1, ranks_set(hash_table, list[rank + 1].name, rank))

\* Lines 95-96 of add_mountains, ranked being the outcome of lines 75-92: an
\* exception leaves self.organiser as that loop has written it so far and
\* hash_table as it was.
add_mountains_ranks(org, ranked) ==
    IF ranked.res # "ok"
    THEN [res |-> ranked.res, org |-> [org EXCEPT !.organiser = ranked.organiser]]
    ELSE [res |-> "ok",
          org |-> [organiser |-> ranked.organiser,
                   hash_table |-> ranks_all(ranked.organiser, 0, org.hash_table)]]

\* The list of line 57 with lines 75-92 applied to it.
add_mountains_levels(merged) ==
    rank_levels([res |-> "ok", organiser |-> merged], merged, counts_keys(merged), 1)

\* add_mountains (lines 40-96).
add_mountains(org, mountains) ==
    add_mountains_ranks(org, add_mountains_levels(merge(org.organiser, mergesort(mountains))))

\* list.remove (line 115): the list without the first element equal to x.
RECURSIVE list_remove(_, _)
list_remove(list, x) ==
    IF list = <<>> THEN <<>>
    ELSE IF Head(list) = x THEN Tail(list)
    ELSE <<Head(list)>> \o list_remove(Tail(list), x)

\* Lines 119-121 from the i-th mountain of sub_list on; a name hash_table does
\* not hold raises KeyError and keeps the decrements made so far.
RECURSIVE ranks_decrement(_, _, _)
ranks_decrement(hash_table, sub_list, i) ==
    IF i > Len(sub_list) THEN [res |-> "ok", hash_table |-> hash_table]
    ELSE IF sub_list[i].name \notin DOMAIN hash_table
    THEN [res |-> "KeyError", hash_table |-> hash_table]
    ELSE ranks_decrement([hash_table EXCEPT ![sub_list[i].name] = @ - 1], sub_list, i + 1)

\* MountainOrganiser.remove_mountain (lines 98-121): cur_position raises
\* KeyError for a name hash_table does not hold, list.remove raises ValueError
\* for a mountain that is not in the list; both leave the organiser as it was.
organiser_remove(org, mountain) ==
    LET p == cur_position(org, mountain)
        sub_list == SubSeq(org.organiser, p.val + 2, Len(org.organiser))
        r == ranks_decrement(ranks_del(org.hash_table, mountain.name), sub_list, 1)
    IN  IF p.res # "ok" THEN [res |-> "KeyError", org |-> org]
        ELSE IF mountain \notin Range(org.organiser) THEN [res |-> "ValueError", org |-> org]
        ELSE [res |-> r.res,
              org |-> [organiser |-> list_remove(org.organiser, mountain),
                       hash_table |-> r.hash_table]]

\* ------------------------------------------------------------------ Trail
\* src/trail.py.  A store is None, a TrailSeries or a TrailSplit.
NoStore == [kind |-> "None"]

Trail(store) == [store |-> store]

TrailSeries(mountain, following) ==
    [kind |-> "TrailSeries", mountain |-> mountain, following |-> following]

TrailSplit(top, bottom, following) ==
    [kind |-> "TrailSplit", top |-> top, bottom |-> bottom, following |-> following]

\* TrailSplit.remove_branch (lines 33-35): a TrailSeries built from the
\* attributes mountain and following of self.following.store, which None and
\* a TrailSplit do not have.
remove_branch(self) ==
    IF self.following.store.kind = "TrailSeries"
    THEN [res |-> "ok",
          store |-> TrailSeries(self.following.store.mountain,
                                self.following.store.following)]
    ELSE [res |-> "AttributeError", store |-> NoStore]

\* The stores built from exactly n TrailSeries and TrailSplit objects.
RECURSIVE StoresOfSize(_)
StoresOfSize(n) ==
    IF n = 0 THEN {NoStore}
    ELSE {TrailSeries(mountain, Trail(following)) :
              mountain \in TrailMountains, following \in StoresOfSize(n - 1)}
         \cup UNION {UNION {{TrailSplit(Trail(top), Trail(bottom), Trail(following)) :
                                top \in StoresOfSize(i), bottom \in StoresOfSize(j),
                                following \in StoresOfSize(n - 1 - i - j)} :
                            j \in 0..(n - 1 - i)} :
                     i \in 0..(n - 1)}

\* LinkedStack, top first: while not a.is_empty(): b.push(a.pop()).
RECURSIVE Drain(_, _)
Drain(a, b) == IF a = <<>> THEN b ELSE Drain(Tail(a), <<Head(a)>> \o b)

\* _difficulty_maximum_paths_aux with the test difficulty_level < max_difficulty.
RECURSIVE difficulty_maximum_paths_aux_strict(_, _, _, _)
difficulty_maximum_paths_aux_strict(max_difficulty, current_trail, following_splits, current_path) ==
    IF following_splits = <<>> /\ current_trail.kind = "None" THEN <<current_path>>
    ELSE IF current_trail.kind = "TrailSeries"
    THEN IF current_trail.mountain.difficulty_level < max_difficulty
         THEN difficulty_maximum_paths_aux_strict(max_difficulty,
                  current_trail.following.store, following_splits,
                  Append(current_path, current_trail.mountain))
         ELSE <<>>
    ELSE IF current_trail.kind = "TrailSplit"
    THEN LET pushed == <<current_trail.following.store>> \o following_splits
             temp_stack == Drain(pushed, <<>>)
             dupe_splits_1 == Drain(temp_stack, <<>>)
             dupe_splits_2 == Drain(temp_stack, <<>>)
         IN  difficulty_maximum_paths_aux_strict(max_difficulty,
                 current_trail.top.store, dupe_splits_1, current_path)
             \o difficulty_maximum_paths_aux_strict(max_difficulty,
                 current_trail.bottom.store, dupe_splits_2, current_path)
    ELSE difficulty_maximum_paths_aux_strict(max_difficulty, Head(following_splits),
             Tail(following_splits), current_path)

\* _difficulty_maximum_paths_aux (lines 251-315); the value is the paths it
\* adds to the list paths, in the order it adds them.  current_path is passed
\* by value: the top branch of a split goes on with the list it was given, the
\* bottom branch with the copy taken before the top branch ran.
RECURSIVE difficulty_maximum_paths_aux(_, _, _, _)
difficulty_maximum_paths_aux(max_difficulty, current_trail, following_splits, current_path) ==
    IF following_splits = <<>> /\ current_trail.kind = "None" THEN <<current_path>>
    ELSE IF current_trail.kind = "TrailSeries"
    THEN IF current_trail.mountain.difficulty_level <= max_difficulty
         THEN difficulty_maximum_paths_aux(max_difficulty,
                  current_trail.following.store, following_splits,
                  Append(current_path, current_trail.mountain))
         ELSE <<>>
    ELSE IF current_trail.kind = "TrailSplit"
    THEN LET pushed == <<current_trail.following.store>> \o following_splits
             temp_stack == Drain(pushed, <<>>)
             dupe_splits_1 == Drain(temp_stack, <<>>)
             dupe_splits_2 == Drain(temp_stack, <<>>)
         IN  difficulty_maximum_paths_aux(max_difficulty,
                 current_trail.top.store, dupe_splits_1, current_path)
             \o difficulty_maximum_paths_aux(max_difficulty,
                 current_trail.bottom.store, dupe_splits_2, current_path)
    ELSE difficulty_maximum_paths_aux(max_difficulty, Head(following_splits),
             Tail(following_splits), current_path)

\* difficulty_maximum_paths (lines 233-249).
difficulty_maximum_paths(self, max_difficulty) ==
    difficulty_maximum_paths_aux(max_difficulty, self.store, <<>>, <<>>)

\* ------------------------------------------------------------ the machine
\* The call that ran last and what it gave back: res is "ok" or the exception,
\* val the value returned by get (for set: the value get returned before the
\* call, 0 if none), none/list the result of keys and values.  note tells which
\* branch a set or delete took: "outer_resize", "inner_resize", "cleared",
\* "repaired" or "moved" (the cluster walk put an entry into another slot),
\* and for contains the boolean returned ("True", "False"); again
\* tells that a set follows a successful set of the same pair.
Call(op, key1, key2, data, res, val, none, list, note) ==
    [op |-> op, key1 |-> key1, key2 |-> key2, data |-> data,
     res |-> res, val |-> val, none |-> none, list |-> list, note |-> note,
     again |-> /\ op = "set" /\ last.op = "set" /\ last.res = "ok"
               /\ last.key1 = key1 /\ last.key2 = key2]

InitWith(sizes, isizes) ==
    /\ TABLE_SIZES = sizes
    /\ internal_sizes = isizes
    /\ table = ArrayR(sizes[1])
    /\ element_count = 0
    /\ size_index = 0
    /\ last = [op |-> "init", key1 |-> <<>>, key2 |-> <<>>, data |-> 0, res |-> "ok",
               val |-> 0, none |-> FALSE, list |-> <<>>, note |-> "", again |-> FALSE]
    /\ calls = 0
    /\ cursor = NoCursor
    /\ hash1_lambda = FALSE
    /\ organiser = MountainOrganiser
    /\ iht = InfiniteHashTable(0)
    /\ trail = Trail(NoStore)

\* DoubleKeyTable(sizes=[5, 13], internal_sizes=[2, 5]).
Init == InitWith(<<5, 13>>, <<2, 5>>)

\* DoubleKeyTable(sizes=[2], internal_sizes=[2]): no growth possible.
InitFull == InitWith(<<2>>, <<2>>)

Frame ==
    UNCHANGED <<TABLE_SIZES, internal_sizes, cursor, hash1_lambda, organiser, iht, trail>>

Store(d) ==
    /\ table' = d.table
    /\ element_count' = d.element_count
    /\ size_index' = d.size_index

Counted ==
    /\ calls < MaxCalls
    /\ calls' = calls + 1

SetNote(r) ==
    IF r.res # "ok" THEN ""
    ELSE IF r.replaced THEN "outer_resize"
    ELSE IF \E i \in 1..Len(table) :
                /\ r.d.table[i].occ /\ table[i].occ
                /\ Len(r.d.table[i].sub.array) # Len(table[i].sub.array)
    THEN "inner_resize"
    ELSE ""

DeleteNote(r) ==
    IF r.res # "ok" THEN ""
    ELSE IF r.d.element_count # element_count THEN "cleared"
    ELSE IF \E i \in 1..Len(table) :
                /\ table[i].occ /\ r.d.table[i].occ
                /\ \E q \in 1..Len(table[i].sub.array) :
                       /\ r.d.table[i].sub.array[q].occ
                       /\ table[i].sub.array[q] # r.d.table[i].sub.array[q]
    THEN "moved"
    ELSE "repaired"

Set(key1, key2, data) ==
    LET r == setitem(Self, key1, key2, data)
    IN  /\ Counted
        /\ Store(r.d)
        /\ last' = Call("set", key1, key2, data, r.res, getitem(Self, key1, key2).val,
                        FALSE, <<>>, SetNote(r))
        /\ Frame

Delete(key1, key2) ==
    LET r == delitem(Self, key1, key2)
    IN  /\ Counted
        /\ Store(r.d)
        /\ last' = Call("delete", key1, key2, 0, r.res, 0, FALSE, <<>>, DeleteNote(r))
        /\ Frame

\* __getitem__ and __contains__ write nothing themselves: the object after
\* the call is the one _linear_probe(key1, key2, False) leaves.
Get(key1, key2) ==
    LET r == getitem(Self, key1, key2)
    IN  /\ last' = Call("get", key1, key2, 0, r.res, r.val, FALSE, <<>>, "")
        /\ Store(linear_probe(Self, key1, key2, FALSE).d)
        /\ UNCHANGED calls
        /\ Frame

Contains(key1, key2) ==
    LET r == contains(Self, key1, key2)
    IN  /\ last' = Call("contains", key1, key2, 0, r.res, 0, FALSE, <<>>,
                        IF r.flag THEN "True" ELSE "False")
        /\ Store(linear_probe(Self, key1, key2, FALSE).d)
        /\ UNCHANGED calls
        /\ Frame

Keys(key) ==
    LET r == keys(Self, key)
    IN  /\ last' = Call("keys", key, <<>>, 0, r.res, 0, r.none, r.list, "")
        /\ UNCHANGED <<table, element_count, size_index, calls>>
        /\ Frame

ValuesOf(key) ==
    LET r == values(Self, key)
    IN  /\ last' = Call("values", key, <<>>, 0, r.res, 0, r.none, r.list, "")
        /\ UNCHANGED <<table, element_count, size_index, calls>>
        /\ Frame

Next ==
    \/ \E key1 \in K1Keys, key2 \in K2Keys, data \in Values : Set(key1, key2, data)
    \/ \E key1 \in K1Keys, key2 \in K2Keys : Delete(key1, key2)
    \/ \E key1 \in K1Keys, key2 \in K2Keys : Get(key1, key2)
    \/ \E key \in K1Keys : Keys(key)
    \/ \E key \in K1Keys : ValuesOf(key)

Spec == Init /\ [][Next]_vars

NextFull ==
    \/ \E key1 \in K1Keys, key2 \in K2Full, data \in ValuesFull : Set(key1, key2, data)
    \/ \E key1 \in K1Keys, key2 \in K2Full : Delete(key1, key2)
    \/ \E key1 \in K1Keys, key2 \in K2Full : Get(key1, key2)
    \/ \E key1 \in K1Keys, key2 \in K2Full : Contains(key1, key2)
    \/ \E key \in K1Keys : Keys(key)
    \/ \E key \in K1Keys : ValuesOf(key)

SpecFull == InitFull /\ [][NextFull]_vars

\* DoubleKeyTable(sizes=[2, 3, 7], internal_sizes=[2, 5]): the rung after the
\* first is too small for the two entries that make the table grow, so the
\* reinsertion pass of _rehash calls _rehash again.
InitTight == InitWith(<<2, 3, 7>>, <<2, 5>>)

NextTight ==
    \/ \E key1 \in K1Keys, key2 \in K2Keys, data \in Values : Set(key1, key2, data)
    \/ \E key1 \in K1Keys, key2 \in K2Keys : Delete(key1, key2)
    \/ \E key1 \in K1Keys, key2 \in K2Keys : Get(key1, key2)

SpecTight == InitTight /\ [][NextTight]_vars

\* Sets and deletes over three key2s: an inner table of capacity 5 then holds
\* a cluster and an entry outside of it.
NextRepair ==
    \/ \E key1 \in K1Keys, key2 \in K2Full, data \in ValuesFull : Set(key1, key2, data)
    \/ \E key1 \in K1Keys, key2 \in K2Full : Delete(key1, key2)

SpecRepair == Init /\ [][NextRepair]_vars

\* iter_keys(key) and iter_values(key): calling a generator function creates
\* the generator and runs nothing of its body.
Iter(kind, key) ==
    /\ cursor.state = "none"
    /\ cursor' = NewCursor(kind, key, calls)
    /\ last' = Call(kind, key, <<>>, 0, "ok", 0, FALSE, <<>>, "")
    /\ UNCHANGED <<TABLE_SIZES, internal_sizes, table, element_count, size_index, calls,
                   hash1_lambda, organiser, iht, trail>>

\* next() on the generator; list holds the element yielded, if any.
IterNext ==
    /\ cursor.state \in {"created", "running"}
    /\ LET r == IF cursor.kind = "iter_keys" THEN iter_keys_next(Self, cursor)
                ELSE iter_values_next(Self, cursor)
       IN  /\ cursor' = r.c
           /\ last' = Call("next", cursor.key, <<>>, 0, r.res, 0, FALSE, r.item, "")
    /\ UNCHANGED <<TABLE_SIZES, internal_sizes, table, element_count, size_index, calls,
                   hash1_lambda, organiser, iht, trail>>

NextIter ==
    \/ \E pair \in IterPairs, data \in Values : Set(pair[1], pair[2], data)
    \/ \E pair \in IterPairs : Delete(pair[1], pair[2])
    \/ \E key \in K1Iter \cup {NoKey} : Iter("iter_keys", key)
    \/ \E key \in K1Iter \cup {NoKey} : Iter("iter_values", key)
    \/ IterNext

SpecIter == Init /\ [][NextIter]_vars

\* ------------------------------------------------------- MountainManager
\* MountainManager() (mountain_manager.py lines 18-23): a DoubleKeyTable() with
\* hash1 replaced by k % table_size, and a MountainOrganiser().
InitManager ==
    /\ TABLE_SIZES = DEFAULT_TABLE_SIZES
    /\ internal_sizes = DEFAULT_TABLE_SIZES
    /\ table = ArrayR(DEFAULT_TABLE_SIZES[1])
    /\ element_count = 0
    /\ size_index = 0
    /\ last = [op |-> "init", key1 |-> <<>>, key2 |-> <<>>, data |-> 0, res |-> "ok",
               val |-> 0, none |-> FALSE, list |-> <<>>, note |-> "", again |-> FALSE]
    /\ calls = 0
    /\ cursor = NoCursor
    /\ hash1_lambda = TRUE
    /\ organiser = MountainOrganiser
    /\ iht = InfiniteHashTable(0)
    /\ trail = Trail(NoStore)

\* Line 35 of add_mountain, o being the outcome of line 34: when add_mountains
\* raised, the dictionary is not reached.
add_mountain_dictionary(d, o, r) ==
    IF o.res # "ok" THEN [res |-> o.res, d |-> d, org |-> o.org, note |-> ""]
    ELSE [res |-> r.res, d |-> r.d, org |-> o.org, note |-> SetNote(r)]

\* add_mountain (lines 25-35): the organiser first, then the dictionary.
add_mountain(d, org, mountain) ==
    add_mountain_dictionary(d, add_mountains(org, <<mountain>>),
                            setitem(d, mountain.difficulty_level, mountain.name, mountain))

\* remove_mountain (lines 37-50): the organiser first; when it raises, the
\* dictionary is not reached.
remove_mountain(d, org, mountain) ==
    LET o == organiser_remove(org, mountain)
        r == delitem(d, mountain.difficulty_level, mountain.name)
    IN  IF o.res # "ok" THEN [res |-> o.res, d |-> d, org |-> o.org]
        ELSE [res |-> r.res, d |-> r.d, org |-> o.org]

\* mountains_with_difficulty (lines 65-77): values(diff), [] on KeyError.
mountains_with_difficulty(d, diff) ==
    LET r == values(d, diff)
    IN  IF r.res = "KeyError" THEN [res |-> "ok", none |-> FALSE, list |-> <<>>]
        ELSE [res |-> r.res, none |-> r.none, list |-> r.list]

ManagerFrame ==
    UNCHANGED <<TABLE_SIZES, internal_sizes, cursor, hash1_lambda, iht, trail>>

\* Mountains are added under names the manager does not hold.
AddMountain(mountain) ==
    /\ \A m \in Range(organiser.organiser) : m.name # mountain.name
    /\ Counted
    /\ LET r == add_mountain(Self, organiser, mountain)
       IN  /\ Store(r.d)
           /\ organiser' = r.org
           /\ last' = Call("add_mountain", mountain.difficulty_level, mountain.name,
                           mountain, r.res, 0, FALSE, <<>>, r.note)
    /\ ManagerFrame

RemoveMountain(mountain) ==
    /\ Counted
    /\ LET r == remove_mountain(Self, organiser, mountain)
       IN  /\ Store(r.d)
           /\ organiser' = r.org
           /\ last' = Call("remove_mountain", mountain.difficulty_level, mountain.name,
                           mountain, r.res, 0, FALSE, <<>>, "")
    /\ ManagerFrame

\* edit_mountain (lines 52-63): remove_mountain(old), then add_mountain(new).
EditMountain(old, new) ==
    /\ \A m \in Range(organiser.organiser) \ {old} : m.name # new.name
    /\ Counted
    /\ LET r == remove_mountain(Self, organiser, old)
           a == add_mountain(r.d, r.org, new)
       IN  IF r.res # "ok"
           THEN /\ Store(r.d)
                /\ organiser' = r.org
                /\ last' = Call("edit_mountain", old.difficulty_level, old.name,
                                new, r.res, 0, FALSE, <<>>, "")
           ELSE /\ Store(a.d)
                /\ organiser' = a.org
                /\ last' = Call("edit_mountain", old.difficulty_level, old.name,
                                new, a.res, 0, FALSE, <<>>, "")
    /\ ManagerFrame

MountainsWithDifficulty(diff) ==
    LET r == mountains_with_difficulty(Self, diff)
    IN  /\ last' = Call("mountains_with_difficulty", diff, <<>>, 0, r.res, 0, r.none,
                        r.list, "")
        /\ UNCHANGED <<table, element_count, size_index, calls, organiser>>
        /\ ManagerFrame

NextManager ==
    \/ \E mountain \in Mountains : AddMountain(mountain)
    \/ \E mountain \in Mountains : RemoveMountain(mountain)
    \/ \E old \in Mountains, new \in Mountains : EditMountain(old, new)
    \/ \E diff \in Difficulties : MountainsWithDifficulty(diff)

SpecManager == InitManager /\ [][NextManager]_vars

\* ------------------------------------------------ InfiniteHashTable calls
\* InfiniteHashTable(): the other objects are not used.
InitIHT == InitWith(<<5, 13>>, <<2, 5>>)

IHTFrame ==
    UNCHANGED <<TABLE_SIZES, internal_sizes, table, element_count, size_index,
                cursor, hash1_lambda, organiser, trail>>

IHTSet(key, value) ==
    LET r == iht_setitem(iht, key, value)
    IN  /\ Counted
        /\ iht' = r.t
        /\ last' = Call("iht_set", key, <<>>, value, r.res, 0, FALSE, <<>>, "")
        /\ IHTFrame

IHTDelete(key) ==
    LET r == iht_delitem(iht, key)
    IN  /\ Counted
        /\ iht' = r.t
        /\ last' = Call("iht_delete", key, <<>>, 0, r.res, 0, FALSE, <<>>, "")
        /\ IHTFrame

IHTGet(key) ==
    LET r == iht_getitem(iht, key)
    IN  /\ last' = Call("iht_get", key, <<>>, 0, r.res, r.val, FALSE, <<>>, "")
        /\ UNCHANGED <<iht, calls>>
        /\ IHTFrame

IHTSortKeys ==
    /\ last' = Call("sort_keys", <<>>, <<>>, 0, "ok", 0, FALSE, sort_keys(iht), "")
    /\ UNCHANGED <<iht, calls>>
    /\ IHTFrame

NextIHT ==
    \/ \E key \in IHTKeys, value \in ValuesFull : IHTSet(key, value)
    \/ \E key \in IHTKeys : IHTDelete(key)
    \/ \E key \in IHTKeys : IHTGet(key)
    \/ IHTSortKeys

SpecIHT == InitIHT /\ [][NextIHT]_vars

\* Sets and gets over keys of which two pairs hash alike at every level.
NextIHTClash ==
    \/ \E key \in IHTClashKeys, value \in Values : IHTSet(key, value)
    \/ \E key \in IHTClashKeys : IHTGet(key)

SpecIHTClash == InitIHT /\ [][NextIHTClash]_vars

\* ------------------------------------------------ MountainOrganiser calls
\* MountainOrganiser(): the other objects are not used.
InitOrganiser == InitWith(<<5, 13>>, <<2, 5>>)

OrganiserFrame ==
    UNCHANGED <<TABLE_SIZES, internal_sizes, table, element_count, size_index,
                cursor, hash1_lambda, iht, trail>>

\* add_mountains(mountains), called with names the list does not hold; list
\* holds the argument.
AddMountains(mountains) ==
    LET r == add_mountains(organiser, mountains)
    IN  /\ \A m \in Range(organiser.organiser), n \in Range(mountains) : m.name # n.name
        /\ Counted
        /\ organiser' = r.org
        /\ last' = Call("add_mountains", <<>>, <<>>, 0, r.res, 0, FALSE, mountains, "")
        /\ OrganiserFrame

\* MountainOrganiser.remove_mountain(mountain); data holds the argument.
OrganiserRemove(mountain) ==
    LET r == organiser_remove(organiser, mountain)
    IN  /\ Counted
        /\ organiser' = r.org
        /\ last' = Call("organiser_remove", <<>>, <<>>, mountain, r.res, 0, FALSE, <<>>, "")
        /\ OrganiserFrame

\* cur_position(mountain); data holds the argument and val the rank returned.
CurPosition(mountain) ==
    LET r == cur_position(organiser, mountain)
    IN  /\ last' = Call("cur_position", <<>>, <<>>, mountain, r.res, r.val, FALSE, <<>>, "")
        /\ UNCHANGED <<calls, organiser>>
        /\ OrganiserFrame

NextOrganiser ==
    \/ \E mountains \in MountainLists : AddMountains(mountains)
    \/ \E mountain \in OrganiserMountains : OrganiserRemove(mountain)
    \/ \E mountain \in OrganiserMountains : CurPosition(mountain)

SpecOrganiser == InitOrganiser /\ [][NextOrganiser]_vars

\* ------------------------------------------------------------ Trail calls
\* A trail of at most MaxNodes series and splits; the other objects are not used.
InitTrail ==
    /\ TABLE_SIZES = <<5, 13>>
    /\ internal_sizes = <<2, 5>>
    /\ table = ArrayR(5)
    /\ element_count = 0
    /\ size_index = 0
    /\ last = [op |-> "init", key1 |-> <<>>, key2 |-> <<>>, data |-> 0, res |-> "ok",
               val |-> 0, none |-> FALSE, list |-> <<>>, note |-> "", again |-> FALSE]
    /\ calls = 0
    /\ cursor = NoCursor
    /\ hash1_lambda = FALSE
    /\ organiser = MountainOrganiser
    /\ iht = InfiniteHashTable(0)
    /\ trail \in {Trail(store) : store \in UNION {StoresOfSize(n) : n \in 0..MaxNodes}}

\* difficulty_maximum_paths(max_difficulty); data holds the argument and list
\* the paths returned.
DifficultyMaximumPaths(max_difficulty) ==
    /\ last' = Call("difficulty_maximum_paths", <<>>, <<>>, max_difficulty, "ok", 0,
                    FALSE, difficulty_maximum_paths(trail, max_difficulty), "")
    /\ UNCHANGED <<TABLE_SIZES, internal_sizes, table, element_count, size_index, calls,
                   cursor, hash1_lambda, organiser, iht, trail>>

NextTrail == \E max_difficulty \in MaxDifficulties : DifficultyMaximumPaths(max_difficulty)

SpecTrail == InitTrail /\ [][NextTrail]_vars

\* remove_branch() on the split the trail starts with; data holds the store
\* returned.
RemoveBranch ==
    /\ trail.store.kind = "TrailSplit"
    /\ LET r == remove_branch(trail.store)
       IN  last' = Call("remove_branch", <<>>, <<>>, r.store, r.res, 0, FALSE, <<>>, "")
    /\ UNCHANGED <<TABLE_SIZES, internal_sizes, table, element_count, size_index, calls,
                   cursor, hash1_lambda, organiser, iht, trail>>

NextBranch == RemoveBranch

SpecBranch == InitTrail /\ [][NextBranch]_vars

\* ------------------------------------------------------------ properties
\* A step that ran set or delete (the only calls that are counted).
Mutation == calls' = calls + 1

DeleteDone == Mutation /\ last'.op = "delete" /\ last'.res = "ok"

SetDone == Mutation /\ last'.op = "set" /\ last'.res = "ok"

SelfNext == [table |-> table', element_count |-> element_count', size_index |-> size_index']

AllK2 == K2Keys \cup K2Full

\* C1 (deletion completeness): after delete(k1,k2) succeeds, contains(k1,k2)
\* is false and every other pair that get returned before the delete is still
\* returned by get with the same value, also a pair whose key1 shares an
\* outer cluster with k1 when the delete cleared k1's outer slot.
C1_DeletionCompleteness ==
    [][DeleteDone =>
         /\ ~contains(SelfNext, last'.key1, last'.key2).flag
         /\ \A j1 \in K1Keys, j2 \in AllK2 :
              (<<j1, j2>> # <<last'.key1, last'.key2>> /\ getitem(Self, j1, j2).res = "ok")
                 => getitem(SelfNext, j1, j2) = getitem(Self, j1, j2)]_vars

\* C2 (round-trip): right after a set(k1,k2,v) that completed without Full,
\* get(k1,k2) returns v, also when the set resized the outer or an inner table.
C2_RoundTrip ==
    (last.op = "set" /\ last.res = "ok")
        => getitem(Self, last.key1, last.key2) = [res |-> "ok", val |-> last.data]

\* Number of occupied outer slots and of stored inner entries.
OuterEntries(d) == Len(keys_all(d))

InnerEntries(d) == Len(values_all(d))

\* C3 (overwrite): a set(k1,k2,v2) that directly follows a successful
\* set(k1,k2,v1) succeeds, makes get(k1,k2) return v2, and leaves size() and
\* the number of outer and inner entries as the first call left them.
C3_Overwrite ==
    [][(Mutation /\ last'.op = "set" /\ last'.again) =>
         /\ last'.res = "ok"
         /\ getitem(SelfNext, last'.key1, last'.key2) = [res |-> "ok", val |-> last'.data]
         /\ len(SelfNext) = len(Self)
         /\ OuterEntries(SelfNext) = OuterEntries(Self)
         /\ InnerEntries(SelfNext) = InnerEntries(Self)]_vars

\* A second set of the same pair has run and changed the value.
C3_Witness ==
    /\ last.op = "set" /\ last.again /\ last.res = "ok"
    /\ last.val # 0 /\ last.val # last.data

\* C4 (uniqueness of key1): no two occupied outer slots hold the same key1.
C4_UniqueKey1 ==
    \A i, j \in 1..Len(table) :
        (table[i].occ /\ table[j].occ /\ table[i].key1 = table[j].key1) => i = j

\* The outer ladder has a rung after the current one.
FurtherRung(d) == d.size_index + 1 < Len(TABLE_SIZES)

\* C5 (load-factor growth): a set of a key1 held by no outer slot that brings
\* element_count above half the outer capacity, with a further rung left,
\* returns with the outer capacity on a strictly larger rung, keys() holding
\* every key1 it held before plus the new one, and every pair get returned
\* before still returned with its value.
C5_LoadFactorGrowth ==
    [][(/\ SetDone
        /\ last'.key1 \notin Range(keys_all(Self))
        /\ 2 * (element_count + 1) > Len(table)
        /\ FurtherRung(Self)) =>
         /\ Len(table') > Len(table)
         /\ Len(table') \in Range(TABLE_SIZES)
         /\ Range(keys_all(SelfNext)) = Range(keys_all(Self)) \cup {last'.key1}
         /\ \A j1 \in K1Keys, j2 \in AllK2 :
              getitem(Self, j1, j2).res = "ok"
                 => getitem(SelfNext, j1, j2) = getitem(Self, j1, j2)]_vars

\* C6 (sub-map isolation): a delete that removes the last entry stored under
\* k1 takes k1 out of keys(), lowers size() by exactly 1, makes keys(k1) and
\* values(k1) fail with KeyError, and leaves no outer slot with an inner
\* table of zero entries.
C6_SubMapIsolation ==
    [][(DeleteDone /\ last'.note = "cleared") =>
         /\ last'.key1 \notin Range(keys_all(SelfNext))
         /\ len(SelfNext) = len(Self) - 1
         /\ keys(SelfNext, last'.key1).res = "KeyError"
         /\ values(SelfNext, last'.key1).res = "KeyError"
         /\ \A i \in 1..Len(table') :
              table'[i].occ => Len(LPT_keys(table'[i].sub)) > 0]_vars

\* C7 (full table): with a single outer rung of capacity n, a set of a key1
\* held by no outer slot succeeds while fewer than n outer slots are occupied
\* (going over the load threshold with no further rung is not an error) and
\* fails with FullError once all n are occupied.
C7_FullTable ==
    [][(/\ Mutation /\ last'.op = "set"
        /\ Len(TABLE_SIZES) = 1
        /\ last'.key1 \notin Range(keys_all(Self))) =>
         /\ OuterEntries(Self) < TABLE_SIZES[1] =>
              (last'.res = "ok" /\ OuterEntries(SelfNext) = OuterEntries(Self) + 1)
         /\ OuterEntries(Self) = TABLE_SIZES[1] => last'.res = "FullError"]_vars

\* n distinct key1 are stored in a single rung of n and the set of one more failed.
C7_Witness ==
    /\ Len(TABLE_SIZES) = 1
    /\ last.op = "set" /\ last.res = "FullError"
    /\ Cardinality(Range(keys_all(Self))) = TABLE_SIZES[1]
    /\ last.key1 \notin Range(keys_all(Self))

\* C8 (insertion atomicity): a set that fails with FullError leaves the outer
\* slots, the inner tables and their entries, element_count and size_index
\* exactly as they were before the call.
C8_InsertionAtomicity ==
    [][(Mutation /\ last'.op = "set" /\ last'.res = "FullError") => SelfNext = Self]_vars

\* A set of a new key2 failed on the full inner table of a key1 that is stored.
C8_Witness ==
    /\ last.op = "set" /\ last.res = "FullError"
    /\ last.key1 \in Range(keys_all(Self))
    /\ keys(Self, last.key1).res = "ok"
    /\ last.key2 \notin Range(keys(Self, last.key1).list)
    /\ Len(keys(Self, last.key1).list) = internal_sizes[Len(internal_sizes)]

\* C9 (scoped enumeration of an absent key1): keys(k1) and values(k1) for a
\* key1 held by no outer slot fail with KeyError, also when every outer slot
\* is occupied by other keys.
C9_ScopedAbsent ==
    (last.op \in {"keys", "values"} /\ last.key1 \notin Range(keys_all(Self)))
        => last.res = "KeyError"

\* Some outer slot holds key1 with key2 among the keys of its inner table.
StoredUnder(d, key1, key2) ==
    \E i \in 1..Len(d.table) :
        /\ d.table[i].occ
        /\ d.table[i].key1 = key1
        /\ key2 \in Range(LPT_keys(d.table[i].sub))

\* C10 (delete of an absent pair): delete(k1,k2) fails with KeyError when no
\* outer slot holds k1 or when k2 is not stored under k1, and the table state
\* is unchanged.
C10_DeleteAbsent ==
    [][(/\ Mutation /\ last'.op = "delete"
        /\ ~StoredUnder(Self, last'.key1, last'.key2)) =>
         (last'.res = "KeyError" /\ SelfNext = Self)]_vars

\* A delete failed for a key2 that is not stored under a key1 that is.
C10_Witness ==
    /\ last.op = "delete" /\ last.res = "KeyError"
    /\ keys(Self, last.key1).res = "ok"
    /\ ~keys(Self, last.key1).none
    /\ last.key2 \notin Range(keys(Self, last.key1).list)

\* C11 (contains never fails and agrees with get): contains(k1,k2) returns a
\* boolean without raising, and the boolean is true exactly when get(k1,k2)
\* on the same table would return a value.
C11_ContainsAgreesWithGet ==
    [][last'.op = "contains" =>
         /\ last'.res = "ok"
         /\ last'.note \in {"True", "False"}
         /\ (last'.note = "True") <=>
                (getitem(Self, last'.key1, last'.key2).res = "ok")]_vars

\* contains answered False for a pair of a table that holds entries, and
\* get of that pair raises KeyError.
C11_Witness ==
    /\ last.op = "contains" /\ last.note = "False" /\ element_count > 0
    /\ getitem(Self, last.key1, last.key2).res = "KeyError"

\* C12 (size counts outer slots): in every state between calls, whatever set,
\* delete and resizes ran, len() = element_count equals the number of occupied
\* outer slots, not the number of stored triples.
C12_SizeCountsOuterSlots == len(Self) = OuterEntries(Self)

\* A delete that kept its outer slot, in a table of several outer slots that
\* holds more triples than outer slots.
C12_Witness ==
    /\ last.op = "delete" /\ last.res = "ok" /\ last.note = "repaired"
    /\ OuterEntries(Self) >= 2
    /\ InnerEntries(Self) > OuterEntries(Self)
    /\ len(Self) = OuterEntries(Self)

\* A step next() of the generator.
StepDone == last'.op = "next" /\ cursor' # cursor

\* The generator is suspended at its yield and the call it snapshot would now
\* give something else than the snapshot.
KeysChanged ==
    /\ cursor.state = "running" /\ cursor.kind = "iter_keys"
    /\ keys_call(Self, cursor.key) # [res |-> "ok", none |-> FALSE, list |-> cursor.snap]

ValuesChanged ==
    /\ cursor.state = "running" /\ cursor.kind = "iter_values"
    /\ values_call(Self, cursor.key) # [res |-> "ok", none |-> FALSE, list |-> cursor.snap]

\* C13 (fail-fast key enumeration): when set or delete calls between two steps
\* of an iter_keys(key) enumeration changed what keys(key) returns, the next
\* step ends with an error: it neither yields a further element of the
\* snapshot nor ends as a normal exhaustion.
C13_FailFastKeys ==
    [][(StepDone /\ KeysChanged) => last'.res \notin {"yield", "StopIteration"}]_vars

CallNow ==
    IF cursor.kind = "iter_keys" THEN keys_call(Self, cursor.key)
    ELSE values_call(Self, cursor.key)

\* C15 (one-shot cursor without mutation): when no set or delete ran since
\* iter_keys(key) or iter_values(key) was called and keys(key) or values(key)
\* returns a list, every step yields the next element of that list, in its
\* order, and the step after the last element ends the enumeration normally,
\* having yielded exactly the list.
C15_OneShotCursor ==
    [][(StepDone /\ cursor.born = calls /\ CallNow.res = "ok" /\ ~CallNow.none) =>
         LET l == CallNow.list
             n == Len(cursor.out)
         IN  IF n < Len(l)
             THEN /\ last'.res = "yield"
                  /\ last'.list = <<l[n + 1]>>
                  /\ cursor'.out = Append(cursor.out, l[n + 1])
             ELSE /\ last'.res = "StopIteration"
                  /\ cursor'.state = "finished"
                  /\ cursor'.out = l]_vars

\* An enumeration of the two inner keys of a key1 that ended normally with no
\* set or delete since its creation.
C15_Witness ==
    /\ cursor.state = "finished" /\ cursor.kind = "iter_keys" /\ cursor.key # NoKey
    /\ cursor.born = calls
    /\ Len(cursor.out) = 2
    /\ cursor.out = keys(Self, cursor.key).list

\* The mountains of a difficulty level that the organiser holds with a rank.
HeldWith(diff) ==
    {m \in Range(organiser.organiser) :
        m.difficulty_level = diff /\ cur_position(organiser, m).res = "ok"}

\* C16 (lookup by difficulty): mountains_with_difficulty(d) returns, without
\* raising, a list holding exactly the mountains currently in the manager
\* whose difficulty_level is d, each once (the empty list only when there is
\* none), also after a difficulty level that collides with d in the outer
\* table lost its last mountain.
C16_LookupByDifficulty ==
    [][last'.op = "mountains_with_difficulty" =>
         /\ last'.res = "ok" /\ ~last'.none
         /\ Range(last'.list) = HeldWith(last'.key1)
         /\ Len(last'.list) = Cardinality(HeldWith(last'.key1))]_vars

\* Lexicographic order of keys: a proper prefix comes first.
LexLess(s, t) ==
    \E i \in 1..(Len(t)) :
        /\ \A j \in 1..(i - 1) : j <= Len(s) /\ s[j] = t[j]
        /\ (i > Len(s) \/ s[i] < t[i])

\* The keys get finds in the table.
IHTStored(t) == {key \in IHTKeys : iht_getitem(t, key).res = "ok"}

\* C17 (sort_keys): sort_keys returns the keys currently stored, each exactly
\* once, in ascending lexicographic order (a proper prefix before the longer
\* key), and no "*" marker of a nested table.
C17_SortKeys ==
    [][last'.op = "sort_keys" =>
         /\ Range(last'.list) = IHTStored(iht)
         /\ \A i \in 1..Len(last'.list) : ~HasStar(last'.list[i])
         /\ \A i \in 1..(Len(last'.list) - 1) :
                LexLess(last'.list[i], last'.list[i + 1])]_vars

\* sort_keys listed "a" before "ab", "ab" before "ah" and "ah" before "h": a
\* prefix, two keys of a nested table and a key of a slot below that of "a".
C17_Witness ==
    /\ last.op = "sort_keys"
    /\ \E i, j, k, l \in 1..Len(last.list) :
         /\ i < j /\ j < k /\ k < l
         /\ last.list[i] = <<97>> /\ last.list[j] = <<97, 98>>
         /\ last.list[k] = <<97, 104>> /\ last.list[l] = <<104>>

\* Every a \o b with a from the list as and b from the list bs.
RECURSIVE Cross(_, _)
Cross(as, bs) ==
    IF as = <<>> THEN <<>>
    ELSE [i \in 1..Len(bs) |-> Head(as) \o bs[i]] \o Cross(Tail(as), bs)

\* One walk per combination of branch decisions: the mountains met, in order,
\* when a branch is chosen at every split and the split's following trail is
\* walked after the branch.
RECURSIVE Walks(_)
Walks(store) ==
    IF store.kind = "None" THEN << <<>> >>
    ELSE IF store.kind = "TrailSeries"
    THEN Cross(<< <<store.mountain>> >>, Walks(store.following.store))
    ELSE Cross(Walks(store.top.store) \o Walks(store.bottom.store),
               Walks(store.following.store))

Occurrences(list, x) == Cardinality({i \in 1..Len(list) : list[i] = x})

Within(walk, max_difficulty) ==
    \A i \in 1..Len(walk) : walk[i].difficulty_level <= max_difficulty

\* C18 (paths under a maximum difficulty): difficulty_maximum_paths(max)
\* returns one list for every combination of branch decisions (nested splits
\* and the following trails of splits included) whose mountains all have
\* difficulty_level <= max, holding these mountains in walk order, and no
\* other list.
C18_MaximumPaths ==
    [][last'.op = "difficulty_maximum_paths" =>
         LET allowed == SelectSeq(Walks(trail.store),
                                  LAMBDA walk : Within(walk, last'.data))
         IN  \A walk \in Range(allowed) \cup Range(last'.list) :
                 Occurrences(last'.list, walk) = Occurrences(allowed, walk)]_vars

\* A split whose top branch is a split and whose following trail holds a
\* mountain: several paths are returned and at least one walk is left out for
\* a mountain above the maximum.
C18_Witness ==
    /\ last.op = "difficulty_maximum_paths"
    /\ trail.store.kind = "TrailSplit"
    /\ trail.store.top.store.kind = "TrailSplit"
    /\ trail.store.following.store.kind = "TrailSeries"
    /\ Len(last.list) >= 2
    /\ Len(last.list) < Len(Walks(trail.store))

\* The positions of the probe path from position from up to position to.
ProbePath(from, to, size) == {(from + step) % size : step \in 0..((to - from + size) % size)}

\* C19 (outer probe reachability): for every occupied outer slot, at position
\* p and holding key1, every slot on the probe path from hash1(key1), stepping
\* by +1 modulo the outer size, up to p is occupied.
C19_OuterProbeReachability ==
    \A p \in 0..(table_size(Self) - 1) :
        table[p + 1].occ =>
            \A position \in ProbePath(hash1(Self, table[p + 1].key1), p, table_size(Self)) :
                table[position + 1].occ

\* C20 (inner probe reachability): in every inner table, for every occupied
\* slot, at position q and holding key2, no slot on the probe path from
\* hash2(key2) under the table's current capacity up to q is empty, deletes
\* with their cluster repair included.
C20_InnerProbeReachability ==
    \A p \in 1..Len(table) :
        table[p].occ =>
            LET sub_table == table[p].sub
            IN  \A q \in 0..(Len(sub_table.array) - 1) :
                    sub_table.array[q + 1].occ =>
                        \A position \in ProbePath(hash2(sub_table.array[q + 1].key, sub_table),
                                                  q, Len(sub_table.array)) :
                            sub_table.array[position + 1].occ

\* A delete whose cluster walk moved an entry of the inner table, which grew
\* before, into another slot.
C20_Witness ==
    /\ last.op = "delete" /\ last.res = "ok" /\ last.note = "moved"
    /\ \E p \in 1..Len(table) :
         /\ table[p].occ /\ table[p].key1 = last.key1
         /\ table[p].sub.size_index = 1
         /\ \E q \in 0..(Len(table[p].sub.array) - 1) :
              /\ table[p].sub.array[q + 1].occ
              /\ hash2(table[p].sub.array[q + 1].key, table[p].sub) = q

\* ------------------------------------------------------------ C21 .. C30
\* C21 (ladder consistency at saturation): in every reachable state size_index
\* is a valid index of the outer ladder and the outer capacity is the rung
\* TABLE_SIZES[size_index]; a set at the last rung that leaves element_count
\* above half the capacity changes neither of them.
C21_LadderConsistency ==
    /\ size_index \in 0..(Len(TABLE_SIZES) - 1)
    /\ table_size(Self) = TABLE_SIZES[size_index + 1]

\* The key2s held under key1 by any outer slot of d.
K2Under(d, key1) ==
    UNION {Range(LPT_keys(d.table[i].sub)) :
             i \in {q \in 1..Len(d.table) : d.table[q].occ /\ d.table[q].key1 = key1}}

\* A set that returned normally after it replaced the outer array.
OuterResizeDone == SetDone /\ last'.note = "outer_resize"

RECURSIVE SumCounts(_, _)
SumCounts(d, i) ==
    IF i > Len(d.table) THEN 0
    ELSE (IF d.table[i].occ THEN d.table[i].sub.count ELSE 0) + SumCounts(d, i + 1)

\* The distinct pairs some outer slot of d holds.
StoredPairs(d) ==
    {p \in K1Keys \X AllK2 : StoredUnder(d, p[1], p[2])}

\* The counts of the inner tables held under key1 (one per outer slot).
CountsUnder(d, key1) ==
    {d.table[i].sub.count :
        i \in {q \in 1..Len(d.table) : d.table[q].occ /\ d.table[q].key1 = key1}}

\* C23 (count bookkeeping on insert): a set under a key1 with no stored pair
\* raises element_count by 1 and leaves key1 with one inner table of count 1;
\* a set of a new key2 under a key1 with stored pairs leaves element_count
\* and adds one to the inner counts in all; a set of a stored pair changes no
\* count; the inner counts always add up to the number of distinct stored pairs.
C23_CountBookkeeping ==
    [][SetDone =>
         /\ K2Under(Self, last'.key1) = {} =>
               /\ element_count' = element_count + 1
               /\ CountsUnder(SelfNext, last'.key1) = {1}
         /\ (K2Under(Self, last'.key1) # {} /\ last'.key2 \notin K2Under(Self, last'.key1)) =>
               /\ element_count' = element_count
               /\ SumCounts(SelfNext, 1) = SumCounts(Self, 1) + 1
         /\ last'.key2 \in K2Under(Self, last'.key1) =>
               /\ element_count' = element_count
               /\ SumCounts(SelfNext, 1) = SumCounts(Self, 1)
         /\ SumCounts(SelfNext, 1) = Cardinality(StoredPairs(SelfNext))]_vars

\* C24 (level independence): a set under a key1 that has stored pairs leaves
\* the outer capacity and the slot of every outer entry as they were, also
\* when the inner table of key1 grows, and leaves the inner table of every
\* other key1 as it was.
C24_LevelIndependence ==
    [][(SetDone /\ K2Under(Self, last'.key1) # {}) =>
         /\ Len(table') = Len(table)
         /\ \A i \in 1..Len(table) :
               /\ table'[i].occ = table[i].occ
               /\ table[i].occ =>
                     /\ table'[i].key1 = table[i].key1
                     /\ table[i].key1 # last'.key1 => table'[i].sub = table[i].sub]_vars

\* C25 (outer load bound, resize within resize): after every completed set
\* element_count is at most half the outer capacity or the outer table is at
\* the last rung of its ladder, also when the next rung was too small and the
\* reinsertion pass grew the table again; a set that grew the outer table
\* leaves every pair that get returned before retrievable and holds no key1
\* in two outer slots.
C25_OuterLoadBound ==
    [][SetDone =>
         /\ \/ 2 * element_count' <= Len(table')
            \/ Len(table') = TABLE_SIZES[Len(TABLE_SIZES)]
         /\ last'.note = "outer_resize" =>
               /\ \A j1 \in K1Keys, j2 \in AllK2 :
                     getitem(Self, j1, j2).res = "ok" => getitem(SelfNext, j1, j2).res = "ok"
               /\ \A i, j \in 1..Len(table') :
                     (table'[i].occ /\ table'[j].occ /\ table'[i].key1 = table'[j].key1)
                        => i = j]_vars

\* A set has grown the outer table past a rung that was smaller than twice
\* the number of outer entries: the reinsertion pass has grown it again.
C25_Witness ==
    /\ last.op = "set" /\ last.res = "ok" /\ last.note = "outer_resize"
    /\ \E r \in 2..(Len(TABLE_SIZES) - 1) :
          /\ TABLE_SIZES[r] < 2 * element_count
          /\ Len(table) = TABLE_SIZES[r + 1]
    /\ \E key1 \in K1Keys : Cardinality(K2Under(Self, key1)) = 2

\* The inner table t is filled to half its capacity at most, or is at the
\* last rung of the internal ladder.
InnerLoadOk(t) ==
    \/ 2 * t.count <= Len(t.array)
    \/ Len(t.array) = internal_sizes[Len(internal_sizes)]

\* C26 (inner load bound): after every completed set every inner table held
\* by an occupied outer slot has count <= capacity/2 or is at the last rung of
\* the internal ladder, also the tables rebuilt by an outer resize and the
\* table of the key1 whose set made the outer table grow.
C26_InnerLoadBound ==
    [][SetDone =>
         \A i \in 1..Len(table') : table'[i].occ => InnerLoadOk(table'[i].sub)]_vars

\* A set of a new key1 has grown the outer table, and an inner table was
\* rebuilt with two entries, past the first inner rung.
C26_Witness ==
    /\ last.op = "set" /\ last.res = "ok" /\ last.note = "outer_resize"
    /\ \E i \in 1..Len(table) : table[i].occ /\ table[i].key1 = last.key1
    /\ \E i \in 1..Len(table) :
          /\ table[i].occ
          /\ table[i].sub.count = 2
          /\ Len(table[i].sub.array) > internal_sizes[1]

\* The number of occupied slots of the inner table t.
Occupied(t) == Len(SelectSeq(t.array, LAMBDA e : e.occ))

\* C27 (no empty inner table, accurate inner counts): between operations
\* every occupied outer slot holds an inner table with at least one entry,
\* and the count of every inner table is the number of its occupied slots.
C27_InnerCounts ==
    \A i \in 1..Len(table) :
        table[i].occ =>
            /\ table[i].sub.count >= 1
            /\ table[i].sub.count = Occupied(table[i].sub)

\* A delete has left the inner table non-empty and its cluster walk has put
\* an entry into another slot.
C27_Witness ==
    /\ last.op = "delete" /\ last.res = "ok" /\ last.note = "moved"
    /\ \E i \in 1..Len(table) : table[i].occ /\ table[i].key1 = last.key1

\* The slots where the probe finds the pair of the call that has just run.
Found == linear_probe(Self, last'.key1, last'.key2, FALSE)

\* A delete that returned normally for a pair whose inner table held another pair.
RepairDone == DeleteDone /\ table[Found.tp + 1].sub.count >= 2

\* Steps from position sp of array a (walking +1, wrapping) to the first
\* empty slot, once the slot at sp itself has been emptied.
FirstEmptyAfter(a, sp) ==
    CHOOSE n \in 1..Len(a) :
        /\ ~[a EXCEPT ![sp + 1] = None][((sp + n) % Len(a)) + 1].occ
        /\ \A m \in 1..(n - 1) : a[((sp + m) % Len(a)) + 1].occ

\* C28 (frame of delete with cluster repair): a delete that leaves the inner
\* table of k1 non-empty changes no outer slot's occupancy or key1, no other
\* inner table and not element_count; in k1's inner table the first empty
\* slot after the deleted position and the slots beyond it keep their
\* content, and the entries are the previous ones without the deleted one.
C28_DeleteFrame ==
    [][RepairDone =>
         LET tp  == Found.tp + 1
             sp  == Found.sp
             old == table[tp].sub
             new == table'[tp].sub
             n   == Len(old.array)
         IN  /\ element_count' = element_count
             /\ size_index' = size_index
             /\ Len(table') = Len(table)
             /\ \A i \in 1..Len(table) : i # tp => table'[i] = table[i]
             /\ table'[tp].occ /\ table'[tp].key1 = table[tp].key1
             /\ Len(new.array) = n
             /\ \A m \in FirstEmptyAfter(old.array, sp)..(n - 1) :
                   new.array[((sp + m) % n) + 1] = old.array[((sp + m) % n) + 1]
             /\ Range(new.array) \ {None} = Range(old.array) \ {None, old.array[sp + 1]}]_vars

\* A delete has moved an entry of the cluster while an entry outside of the
\* cluster stayed in the same inner table.
C28_Witness ==
    /\ last.op = "delete" /\ last.res = "ok" /\ last.note = "moved"
    /\ \E i \in 1..Len(table) :
          /\ table[i].occ /\ table[i].key1 = last.key1
          /\ LET a == table[i].sub.array
             IN  \E q, r \in 1..Len(a) :
                    /\ a[q].occ /\ a[r].occ
                    /\ (r - q) % Len(a) \notin {0, 1, Len(a) - 1}

\* C29 (reads do not mutate): get, contains, keys, values and a delete that
\* fails with KeyError leave the table, element_count and size_index as they
\* were; a lookup of an absent key1 puts no inner table into an outer slot.
C29_ReadsDoNotMutate ==
    [][(\/ last'.op \in {"get", "contains", "keys", "values"}
        \/ (last'.op = "delete" /\ last'.res = "KeyError")) => SelfNext = Self]_vars

\* A get has failed for a key1 that no outer slot holds, with an outer slot
\* empty at the hash position of that key1.
C29_Witness ==
    /\ last.op = "get" /\ last.res = "KeyError"
    /\ last.key1 \notin Range(keys_all(Self))
    /\ ~table[hash1(Self, last.key1) + 1].occ

\* C30 (InfiniteHashTable delete keeps the other keys): when only sets of
\* distinct keys have run so far (each of the calls has added one to count),
\* a delete leaves every other stored key retrievable with its value and
\* listed by sort_keys, and len equal to the number of retrievable keys, also
\* when the table left with one plain key and sub-tables is closed.
C30_DeleteKeepsOthers ==
    [][(/\ Mutation /\ last'.op = "iht_delete" /\ last'.res = "ok"
        /\ iht.count = calls) =>
         /\ \A key \in IHTStored(iht) \ {last'.key1} :
               /\ iht_getitem(iht', key) = iht_getitem(iht, key)
               /\ key \in Range(sort_keys(iht'))
         /\ iht'.count = Cardinality(IHTStored(iht'))]_vars

\* ------------------------------------------------------------ C31 .. C33
\* C31 (InfiniteHashTable set terminates): every set(key, value) finishes
\* after creating finitely many sub-tables, also when key is already stored
\* and when another stored key hashes like key at every level.
C31_SetTerminates == last.op = "iht_set" => last.res = "ok"

\* The list holds no mountain twice, is ordered by difficulty level and, within
\* a level, by name, and hash_table holds for exactly the names of the list
\* their index in it.
OrganiserOk(org) ==
    /\ \A i, j \in 1..Len(org.organiser) :
          i < j => \/ org.organiser[i].difficulty_level < org.organiser[j].difficulty_level
                   \/ /\ org.organiser[i].difficulty_level = org.organiser[j].difficulty_level
                      /\ LexLess(org.organiser[i].name, org.organiser[j].name)
    /\ DOMAIN org.hash_table = {m.name : m \in Range(org.organiser)}
    /\ \A i \in 1..Len(org.organiser) : org.hash_table[org.organiser[i].name] = i - 1

\* C32 (rank consistency): from a list that holds its mountains once each,
\* ordered by difficulty level and then by name, with cur_position equal to
\* the index, add_mountains of mountains with new distinct names and
\* remove_mountain of a held mountain return normally and leave such a list,
\* holding the mountains it held plus the added ones, respectively minus the
\* removed one; cur_position of a held mountain returns its index.  This
\* covers a mountain added after one of its difficulty level whose name
\* sorts behind its own.
C32_RankConsistency ==
    [][OrganiserOk(organiser) =>
         /\ last'.op = "add_mountains" =>
               /\ last'.res = "ok"
               /\ OrganiserOk(organiser')
               /\ Range(organiser'.organiser)
                     = Range(organiser.organiser) \cup Range(last'.list)
         /\ (last'.op = "organiser_remove" /\ last'.data \in Range(organiser.organiser)) =>
               /\ last'.res = "ok"
               /\ OrganiserOk(organiser')
               /\ Range(organiser'.organiser) = Range(organiser.organiser) \ {last'.data}
         /\ (last'.op = "cur_position" /\ last'.data \in Range(organiser.organiser)) =>
               /\ last'.res = "ok"
               /\ organiser.organiser[last'.val + 1] = last'.data]_vars

\* C33 (remove_branch): remove_branch of a split returns, without failing, the
\* store of the split's following trail: a series of the same mountain and
\* the same following trail when a series follows, the empty store when
\* nothing follows, that split when a split follows.
C33_RemoveBranch ==
    last.op = "remove_branch" =>
        /\ last.res = "ok"
        /\ last.data = trail.store.following.store

====
